---- MODULE Spec2Model ----
(***************************************************************************)
(* Card cache, dependency resolver and location index of speki-core.       *)
(*                                                                         *)
(* The collection is a set of card files.  A file holds a card (its id,    *)
(* its declared dependencies, the card reference of its back side and      *)
(* whether it is finished) and has a modification time.  The CardCache     *)
(* keeps one SavedCard snapshot per id and validates it against the file   *)
(* on every access.  The location index keeps, per id, the path of the     *)
(* card's file and the ids of the cards that depend on it.  The review     *)
(* history of a card is the log of its graded reviews, from which the      *)
(* stability of the memory and the recall rate are computed.  Outside the  *)
(* cache a card is held as a SavedCard of the holder's own (held) or as a  *)
(* handle on a snapshot the cache shares (arcs, handle).                   *)
(***************************************************************************)
EXTENDS Integers, Sequences, FiniteSets, TLC

VARIABLES disk, clock, cache, index, last, history, held, arcs, handle

vars == <<disk, clock, cache, index, last, history, held, arcs, handle>>

\* Number of card ids of the model.
NumIds == 3
\* Largest modification time a file can get.
MaxTime == 2

Ids == 1 .. NumIds
\* One path per id and a spare one a file can be moved to.
Paths == 1 .. (NumIds + 1)
\* Option::None, and the absence of a file at a path.
None == [tag |-> "None"]
\* Option::Some of a value that is no record.
Some(v) == [tag |-> "Some", val |-> v]
\* BackSide::Text: a back side that names no card.
Text == 0

Max(S) == CHOOSE x \in S : \A y \in S : y <= x

\* The elements of a set of integers in ascending order (BTreeSet iteration).
RECURSIVE SetToSeq(_)
SetToSeq(S) ==
    IF S = {} THEN <<>>
    ELSE LET m == Max(S) IN Append(SetToSeq(S \ {m}), m)

----------------------------------------------------------------------------
(* Card files *)

path_exists(d, p) == d[p] # None

\* The paths of the collection that hold a card file.
get_containing_card_paths(d) == {p \in Paths : path_exists(d, p)}

\* BackSide::dependencies: the card a back side refers to, if any.
BackSide_dependencies(back) == IF back = Text THEN {} ELSE {back}

\* dependency_ids that leaves out the dependencies of the card's type.
dependency_ids_DeclaredOnly(card) == card.dependencies

\* SavedCard::dependency_ids: the declared dependencies and those of the type.
dependency_ids(card) == card.dependencies \cup BackSide_dependencies(card.back)

\* SavedCard::from_path: the card of the file with the file's modification time.
from_path(d, p) ==
    [id            |-> d[p].id,
     dependencies  |-> d[p].dependencies,
     back          |-> d[p].back,
     finished      |-> d[p].finished,
     path          |-> p,
     last_modified |-> d[p].mtime]

\* SavedCard::load_all_cards: every card file of the collection, loaded.
load_all_cards(d) == {from_path(d, p) : p \in get_containing_card_paths(d)}

\* SavedCard::from_id of card.rs: the linear search through all the cards.
from_id(d, id) ==
    IF \E c \in load_all_cards(d) : c.id = id
    THEN CHOOSE c \in load_all_cards(d) : c.id = id
    ELSE None

\* std::fs::write of a card: the file gets the card's content and the time t.
fs_write(d, p, card, t) ==
    [d EXCEPT ![p] = [id           |-> card.id,
                      dependencies |-> card.dependencies,
                      back         |-> card.back,
                      finished     |-> card.finished,
                      mtime        |-> t]]

----------------------------------------------------------------------------
(* CardCache *)

\* CardCache::maybe_update, first half: the status of the slot of id.
CardCacheStatus(c, d, id) ==
    IF c[id] # None
    THEN IF path_exists(d, c[id].path)
         THEN IF d[c[id].path].mtime > c[id].last_modified
              THEN "NeedsUpdate"
              ELSE "UpToDate"
         ELSE "FileMissing"
    ELSE "MissingFromCache"

\* maybe_update that leaves an outdated slot as it is.
maybe_update_NoReload(c, d, id) ==
    LET status == CardCacheStatus(c, d, id) IN
    CASE status \in {"UpToDate", "NeedsUpdate"} -> c
      [] OTHER ->
            IF from_id(d, id) # None
            THEN [c EXCEPT ![id] = from_id(d, id)]
            ELSE c

\* maybe_update that rebuilds every slot whenever the slot of id is usable.
maybe_update_Rescan(c, d, id) ==
    LET status == CardCacheStatus(c, d, id) IN
    CASE status = "UpToDate" ->
            [i \in Ids |-> IF from_id(d, i) # None THEN from_id(d, i) ELSE c[i]]
      [] status = "NeedsUpdate" ->
            [c EXCEPT ![id] = from_path(d, c[id].path)]
      [] OTHER ->
            IF from_id(d, id) # None
            THEN [c EXCEPT ![id] = from_id(d, id)]
            ELSE c

\* CardCache::maybe_update, second half: the cache after the fix-up.
maybe_update(c, d, id) ==
    LET status == CardCacheStatus(c, d, id) IN
    CASE status = "UpToDate" -> c
      [] status = "NeedsUpdate" ->
            [c EXCEPT ![id] = from_path(d, c[id].path)]
      [] OTHER ->
            IF from_id(d, id) # None
            THEN [c EXCEPT ![id] = from_id(d, id)]
            ELSE c

\* CardCache::try_get_ref: the cache after maybe_update and the slot of id.
try_get_ref(c, d, id) ==
    LET c2 == maybe_update(c, d, id) IN
    [cache |-> c2, ret |-> c2[id]]

\* CardCache::insert and CardCache::cache_one.
insert(c, card) == [c EXCEPT ![card.id] = card]

\* CardCache::remove.
remove(c, id) == [c EXCEPT ![id] = None]

\* CardCache::new_empty.
new_empty == [id \in Ids |-> None]

\* CardCache::cache_all on an empty cache (CardCache::new).
cache_all(d) ==
    [id \in Ids |-> from_id(d, id)]


----------------------------------------------------------------------------
(* Dependency resolver of the CardCache *)

\* CardCache::dependencies: the dependency ids of the card, none if unresolved.
dependencies(c, d, id) ==
    LET r == try_get_ref(c, d, id) IN
    [cache |-> r.cache,
     ret   |-> IF r.ret = None THEN {} ELSE dependency_ids(r.ret)]

\* An upper limit of the loop's iterations: the first push and, for each of
\* the ids, one expansion pushing at most every id.
MaxPops == NumIds * NumIds + 1

\* The loop without the check that a popped id was already seen.
RECURSIVE recursive_loop_NoVisited(_, _, _, _, _, _)
recursive_loop_NoVisited(c, d, stack, deps, expanded, fuel) ==
    IF stack = <<>>
    THEN [cache |-> c, deps |-> deps, expanded |-> expanded, finished |-> TRUE]
    ELSE IF fuel = 0
    THEN [cache |-> c, deps |-> deps, expanded |-> expanded, finished |-> FALSE]
    ELSE LET card == stack[Len(stack)]
             rest == SubSeq(stack, 1, Len(stack) - 1)
             r    == dependencies(c, d, card)
         IN  recursive_loop_NoVisited(r.cache, d, rest \o SetToSeq(r.ret),
                                      deps \cup {card}, Append(expanded, card),
                                      fuel - 1)

\* The while loop of recursive_dependencies, run for at most fuel pops.
\* expanded lists the ids whose dependencies were looked up, in order.
RECURSIVE recursive_loop(_, _, _, _, _, _)
recursive_loop(c, d, stack, deps, expanded, fuel) ==
    IF stack = <<>>
    THEN [cache |-> c, deps |-> deps, expanded |-> expanded, finished |-> TRUE]
    ELSE IF fuel = 0
    THEN [cache |-> c, deps |-> deps, expanded |-> expanded, finished |-> FALSE]
    ELSE LET card == stack[Len(stack)]
             rest == SubSeq(stack, 1, Len(stack) - 1)
         IN  IF card \notin deps
             THEN LET r == dependencies(c, d, card) IN
                  recursive_loop(r.cache, d, rest \o SetToSeq(r.ret),
                                 deps \cup {card}, Append(expanded, card),
                                 fuel - 1)
             ELSE recursive_loop(c, d, rest, deps, expanded, fuel - 1)

\* recursive_dependencies that forgets to remove the starting id.
recursive_dependencies_KeepsStart(c, d, id) ==
    LET r == recursive_loop(c, d, <<id>>, {}, <<>>, MaxPops) IN
    [cache    |-> r.cache,
     ret      |-> r.deps,
     expanded |-> r.expanded,
     finished |-> r.finished]

\* CardCache::recursive_dependencies.
recursive_dependencies(c, d, id) ==
    LET r == recursive_loop(c, d, <<id>>, {}, <<>>, MaxPops) IN
    [cache    |-> r.cache,
     ret      |-> r.deps \ {id},
     expanded |-> r.expanded,
     finished |-> r.finished]

----------------------------------------------------------------------------
(* The collection and the cache: operations *)

\* A collection of finished cards without dependencies, one file per id, and
\* the cache CardCache::new() builds from it.
InitDisk ==
    [p \in Paths |->
        IF p \in Ids
        THEN [id |-> p, dependencies |-> {}, back |-> Text,
              finished |-> TRUE, mtime |-> 0]
        ELSE None]

NoIndex == [id \in Ids |-> None]

\* The value of last when the last step was no call that returns a result.
NoCall == [op |-> "none"]

\* Number of holders of a SavedCard of their own.
NumHolders == 2

Holders == 1 .. NumHolders

\* No holder has loaded a card.
NoHeld == [h \in Holders |-> None]

Init ==
    /\ disk = InitDisk
    /\ clock = 0
    /\ cache = cache_all(InitDisk)
    /\ index = NoIndex
    /\ last = NoCall
    /\ history = <<>>
    /\ held = NoHeld
    /\ arcs = <<>>
    /\ handle = None

\* The card file at p is edited outside the cache (edit_with_vim, another
\* program): the dependency dep is added to it, or removed from it, and its
\* modification time advances.
EditFile(p, dep) ==
    /\ path_exists(disk, p)
    /\ clock < MaxTime
    /\ clock' = clock + 1
    /\ disk' = [disk EXCEPT
                  ![p].dependencies =
                      IF dep \in @ THEN @ \ {dep} ELSE @ \cup {dep},
                  ![p].mtime = clock + 1]
    /\ last' = NoCall
    /\ UNCHANGED <<cache, index, history, held, arcs, handle>>

\* The file of card id is removed (std::fs::remove_file); the cache is not
\* told.
RemoveFile(id) ==
    /\ from_id(disk, id) # None
    /\ disk' = [disk EXCEPT ![from_id(disk, id).path] = None]
    /\ last' = NoCall
    /\ UNCHANGED <<clock, cache, index, history, held, arcs, handle>>

\* The path outside the cards' first paths.
SparePath == NumIds + 1

\* A card file is moved to the spare path; its modification time is kept.
MoveFile(p) ==
    /\ path_exists(disk, p)
    /\ ~path_exists(disk, SparePath)
    /\ disk' = [disk EXCEPT ![SparePath] = disk[p], ![p] = None]
    /\ last' = NoCall
    /\ UNCHANGED <<clock, cache, index, history, held, arcs, handle>>

\* cache.try_get_ref(id).  pre is the slot before the call.
TryGetRef(id) ==
    LET r == try_get_ref(cache, disk, id) IN
    /\ cache' = r.cache
    /\ last' = [op |-> "try_get_ref", id |-> id, pre |-> cache[id],
                ret |-> r.ret]
    /\ UNCHANGED <<disk, clock, index, history, held, arcs, handle>>

\* cache.insert(card) with a card just loaded from its file.
Insert(p) ==
    /\ path_exists(disk, p)
    /\ cache' = insert(cache, from_path(disk, p))
    /\ last' = NoCall
    /\ UNCHANGED <<disk, clock, index, history, held, arcs, handle>>

\* cache.remove(id).
Remove(id) ==
    /\ cache[id] # None
    /\ cache' = remove(cache, id)
    /\ last' = NoCall
    /\ UNCHANGED <<disk, clock, index, history, held, arcs, handle>>

\* cache.refresh(): the cache is rebuilt from the collection.
Refresh ==
    /\ cache' = cache_all(disk)
    /\ last' = NoCall
    /\ UNCHANGED <<disk, clock, index, history, held, arcs, handle>>

\* cache.dependencies(id).
Dependencies(id) ==
    LET r == dependencies(cache, disk, id) IN
    /\ cache' = r.cache
    /\ last' = [op |-> "dependencies", id |-> id, ret |-> r.ret]
    /\ UNCHANGED <<disk, clock, index, history, held, arcs, handle>>

\* cache.recursive_dependencies(id).
RecursiveDependencies(id) ==
    LET r == recursive_dependencies(cache, disk, id) IN
    /\ cache' = r.cache
    /\ last' = [op |-> "recursive_dependencies", id |-> id, ret |-> r.ret,
                expanded |-> r.expanded, finished |-> r.finished]
    /\ UNCHANGED <<disk, clock, index, history, held, arcs, handle>>

\* The cache over a collection that changes underneath it.
Next ==
    \/ \E p \in Paths, dep \in Ids : EditFile(p, dep)
    \/ \E id \in Ids : RemoveFile(id)
    \/ \E p \in Paths : MoveFile(p)
    \/ \E id \in Ids : TryGetRef(id)
    \/ \E p \in Paths : Insert(p)
    \/ \E id \in Ids : Remove(id)
    \/ Refresh

Spec == Init /\ [][Next]_vars

\* The dependency queries of the cache over a collection whose cards are
\* edited and deleted underneath it.
NextDeps ==
    \/ \E p \in Paths, dep \in Ids : EditFile(p, dep)
    \/ \E id \in Ids : RemoveFile(id)
    \/ \E id \in Ids : Dependencies(id)
    \/ \E id \in Ids : RecursiveDependencies(id)

SpecDeps == Init /\ [][NextDeps]_vars

----------------------------------------------------------------------------
(* Location index: per id the path of the card and its dependents *)

\* The ids of the cards among cards that declare id as a dependency.
dependents_of(cards, id) == {a.id : a \in {c \in cards : id \in dependency_ids(c)}}

\* sync that appends to the entries the index already held.
sync_OnOldEntries(ix, d) ==
    LET cards == load_all_cards(d) IN
    [id \in Ids |->
        IF \E c \in cards : c.id = id
        THEN [path       |-> (CHOOSE c \in cards : c.id = id).path,
              dependents |-> IF ix[id] = None THEN {}
                             ELSE dependents_of(cards, id)]
        ELSE None]

\* sync: the index is rebuilt from a scan of all cards: one entry per card
\* with no dependents, then every card is added to the dependents of each of
\* its dependency ids that has an entry.
sync(ix, d) ==
    LET cards == load_all_cards(d) IN
    [id \in Ids |->
        IF \E c \in cards : c.id = id
        THEN [path       |-> (CHOOSE c \in cards : c.id = id).path,
              dependents |-> dependents_of(cards, id)]
        ELSE None]

\* The entry of id, unless there is none or its path is gone.
index_lookup(ix, d, id) ==
    IF ix[id] # None /\ path_exists(d, ix[id].path) THEN ix[id] ELSE None

\* path_from_id that reports a miss without a sync.
path_from_id_NoResync(ix, d, id) ==
    [index |-> ix,
     ret   |-> IF index_lookup(ix, d, id) # None
               THEN Some(ix[id].path) ELSE None,
     syncs |-> 0]

\* path_from_id: the path the index holds for id; on a miss the index is
\* synced and looked up once more.  syncs counts the syncs of the call.
path_from_id(ix, d, id) ==
    IF index_lookup(ix, d, id) # None
    THEN [index |-> ix, ret |-> Some(ix[id].path), syncs |-> 0]
    ELSE LET ix2 == sync(ix, d) IN
         [index |-> ix2,
          ret   |-> IF index_lookup(ix2, d, id) # None
                    THEN Some(ix2[id].path) ELSE None,
          syncs |-> 1]

\* add_dependent without the check that of is not the dependent itself.
add_dependent_NoSelfCheck(ix, d, of, dependent) ==
    IF ix[of] # None /\ dependent \in ix[of].dependents THEN ix
    ELSE LET ix2 == IF index_lookup(ix, d, of) # None THEN ix ELSE sync(ix, d)
         IN  IF ix2[of] = None \/ dependent \in ix2[of].dependents
             THEN ix2
             ELSE [ix2 EXCEPT ![of].dependents = @ \cup {dependent}]

\* add_dependent: nothing when of is the dependent or already lists it; a
\* miss of of syncs the index before the insertion.
add_dependent(ix, d, of, dependent) ==
    IF of = dependent THEN ix
    ELSE IF ix[of] # None /\ dependent \in ix[of].dependents THEN ix
    ELSE LET ix2 == IF index_lookup(ix, d, of) # None THEN ix ELSE sync(ix, d)
         IN  IF ix2[of] = None \/ dependent \in ix2[of].dependents
             THEN ix2
             ELSE [ix2 EXCEPT ![of].dependents = @ \cup {dependent}]

\* SavedCard::from_id of saved_card.rs: the card at the path the index gives.
SavedCard_from_id(ix, d, id) ==
    LET r == path_from_id(ix, d, id) IN
    [index |-> r.index,
     ret   |-> IF r.ret = None THEN None ELSE from_path(d, r.ret.val)]

\* SavedCard::persist: the card is written to its file at time t.
persist(d, card, t) == fs_write(d, card.path, card, t)

\* SavedCard::set_dependency: the dependency is declared and persisted and
\* the card is added to the dependents of the dependency.
SavedCard_set_dependency(ix, d, card, dependency, t) ==
    IF card.id = dependency
    THEN [index |-> ix, disk |-> d]
    ELSE LET card2 == [card EXCEPT !.dependencies = @ \cup {dependency}]
             d2    == persist(d, card2, t)
         IN  [index |-> add_dependent(ix, d2, dependency, card.id),
              disk  |-> d2]

\* SavedCard::rm_dependency.
SavedCard_rm_dependency(d, card, dependency, t) ==
    persist(d, [card EXCEPT !.dependencies = @ \ {dependency}], t)

\* SavedCard::set_ref: the back side of a card that has one becomes a
\* reference to the card id.
SavedCard_set_ref(d, card, id, t) ==
    IF ~card.finished THEN d
    ELSE persist(d, [card EXCEPT !.back = id], t)

\* inner of all_dependencies and its loop over the dependencies of a card;
\* deps is the vector the dependencies are pushed to.  A path of more cards
\* than there are ids repeats a card, whose dependencies lead back to it: the
\* recursion does not end and the call overflows the stack.
RECURSIVE inner(_, _, _, _, _)
RECURSIVE inner_loop(_, _, _, _, _)
inner(ix, d, id, deps, depth) ==
    IF depth >= NumIds
    THEN [index |-> ix, deps |-> deps, overflow |-> TRUE]
    ELSE LET r == SavedCard_from_id(ix, d, id) IN
         IF r.ret = None
         THEN [index |-> r.index, deps |-> deps, overflow |-> FALSE]
         ELSE inner_loop(r.index, d, SetToSeq(dependency_ids(r.ret)), deps,
                         depth)

inner_loop(ix, d, todo, deps, depth) ==
    IF todo = <<>>
    THEN [index |-> ix, deps |-> deps, overflow |-> FALSE]
    ELSE LET r == inner(ix, d, Head(todo), Append(deps, Head(todo)),
                        depth + 1)
         IN  IF r.overflow THEN r
             ELSE inner_loop(r.index, d, Tail(todo), r.deps, depth)

\* SavedCard::all_dependencies.
all_dependencies(ix, d, id) == inner(ix, d, id, <<>>, 0)

\* The for loop of is_resolved over the ids of all_dependencies.
RECURSIVE is_resolved_loop(_, _, _)
is_resolved_loop(ix, d, todo) ==
    IF todo = <<>>
    THEN [index |-> ix, ret |-> TRUE]
    ELSE LET r == SavedCard_from_id(ix, d, Head(todo)) IN
         IF r.ret # None /\ ~r.ret.finished
         THEN [index |-> r.index, ret |-> FALSE]
         ELSE is_resolved_loop(r.index, d, Tail(todo))

\* SavedCard::is_resolved: no card of all_dependencies that can be loaded is
\* unfinished.  aborted: the call ended in a stack overflow and returned
\* nothing.
is_resolved(ix, d, id) ==
    LET r == all_dependencies(ix, d, id) IN
    IF r.overflow
    THEN [index |-> r.index, aborted |-> TRUE, ret |-> FALSE]
    ELSE LET l == is_resolved_loop(r.index, d, r.deps) IN
         [index |-> l.index, aborted |-> FALSE, ret |-> l.ret]

----------------------------------------------------------------------------
(* The collection and the location index: operations *)

\* A collection with one file per id: the card with the largest id was made
\* by add_unfinished, the others by add_card, and the first card declares the
\* second as a dependency.  No index was written yet.
InitIndex ==
    /\ disk = [p \in Paths |->
                 IF p \in Ids
                 THEN [InitDisk[p] EXCEPT
                         !.finished = (p # NumIds),
                         !.dependencies = IF p = 1 THEN {2} ELSE {}]
                 ELSE None]
    /\ clock = 0
    /\ cache = new_empty
    /\ index = NoIndex
    /\ last = NoCall
    /\ history = <<>>
    /\ held = NoHeld
    /\ arcs = <<>>
    /\ handle = None

\* lib.rs set_dependency(card_id, dependency).
SetDependency(card_id, dependency) ==
    IF card_id = dependency
    THEN /\ last' = NoCall
         /\ UNCHANGED <<disk, clock, cache, index, history, held, arcs, handle>>
    ELSE LET c == SavedCard_from_id(index, disk, card_id) IN
         /\ c.ret # None
         /\ clock < MaxTime
         /\ LET r  == SavedCard_set_dependency(c.index, disk, c.ret,
                                               dependency, clock + 1)
                c2 == from_path(r.disk, c.ret.path)
            IN  /\ disk' = persist(r.disk, c2, clock + 1)
                /\ index' = r.index
         /\ clock' = clock + 1
         /\ last' = NoCall
         /\ UNCHANGED <<cache, history, held, arcs, handle>>

\* card.rm_dependency(dependency) on the card loaded by its id.
RmDependency(card_id, dependency) ==
    LET c == SavedCard_from_id(index, disk, card_id) IN
    /\ c.ret # None
    /\ dependency \in c.ret.dependencies
    /\ clock < MaxTime
    /\ disk' = SavedCard_rm_dependency(disk, c.ret, dependency, clock + 1)
    /\ index' = c.index
    /\ clock' = clock + 1
    /\ last' = NoCall
    /\ UNCHANGED <<cache, history, held, arcs, handle>>

\* card.set_ref(id) on the card loaded by its id; a card without a back side
\* (CardType::Unfinished) is left as it is.
SetRef(card_id, id) ==
    LET c == SavedCard_from_id(index, disk, card_id) IN
    /\ c.ret # None
    /\ index' = c.index
    /\ last' = NoCall
    /\ IF c.ret.finished
       THEN /\ clock < MaxTime
            /\ disk' = SavedCard_set_ref(disk, c.ret, id, clock + 1)
            /\ clock' = clock + 1
       ELSE UNCHANGED <<disk, clock>>
    /\ UNCHANGED <<cache, history, held, arcs, handle>>

\* lib.rs delete(card_id): the file of the card is removed.
Delete(card_id) ==
    LET c == SavedCard_from_id(index, disk, card_id) IN
    /\ c.ret # None
    /\ disk' = [disk EXCEPT ![c.ret.path] = None]
    /\ index' = c.index
    /\ last' = NoCall
    /\ UNCHANGED <<clock, cache, history, held, arcs, handle>>

\* sync().  again: the step before was a sync as well.
Sync ==
    /\ index' = sync(index, disk)
    /\ last' = [op |-> "sync", again |-> last.op = "sync"]
    /\ UNCHANGED <<disk, clock, cache, history, held, arcs, handle>>

\* add_dependent(of, dependent).
AddDependent(of, dependent) ==
    /\ index' = add_dependent(index, disk, of, dependent)
    /\ last' = [op |-> "add_dependent", of |-> of, dependent |-> dependent]
    /\ UNCHANGED <<disk, clock, cache, history, held, arcs, handle>>

\* path_from_id(id).  pre is the entry of id before the call.
PathFromId(id) ==
    LET r == path_from_id(index, disk, id) IN
    /\ index' = r.index
    /\ last' = [op |-> "path_from_id", id |-> id, pre |-> index[id],
                ret |-> r.ret, syncs |-> r.syncs]
    /\ UNCHANGED <<disk, clock, cache, history, held, arcs, handle>>

\* card.is_resolved() on the card loaded by its id.
IsResolved(card_id) ==
    LET c == SavedCard_from_id(index, disk, card_id) IN
    /\ c.ret # None
    /\ LET r == is_resolved(c.index, disk, card_id) IN
       /\ index' = r.index
       /\ last' = [op |-> "is_resolved", id |-> card_id, ret |-> r.ret,
                   aborted |-> r.aborted]
    /\ UNCHANGED <<disk, clock, cache, history, held, arcs, handle>>

NextIndex ==
    \/ \E a, b \in Ids : SetDependency(a, b)
    \/ \E a, b \in Ids : RmDependency(a, b)
    \/ \E a, b \in Ids : SetRef(a, b)
    \/ \E a \in Ids : Delete(a)
    \/ Sync
    \/ \E a, b \in Ids : AddDependent(a, b)
    \/ \E a \in Ids : IsResolved(a)

SpecIndex == InitIndex /\ [][NextIndex]_vars

\* The lookups of the location index over a collection whose card files are
\* moved and deleted underneath it.
NextLookup ==
    \/ \E p \in Paths : MoveFile(p)
    \/ \E a \in Ids : Delete(a)
    \/ Sync
    \/ \E a, b \in Ids : AddDependent(a, b)
    \/ \E a \in Ids : PathFromId(a)

SpecLookup == InitIndex /\ [][NextLookup]_vars

----------------------------------------------------------------------------
(* f32 arithmetic and std::time::Duration *)

\* A finite f32 that is not negative: zero, or m * 2^e with 2^23 <= m < 2^24.
F32(m, e) == [m |-> m, e |-> e]
\* f32::NAN and f32::INFINITY.
NaN == [nan |-> TRUE]
Inf == [inf |-> TRUE]
IsFinite(x) == x # NaN /\ x # Inf

\* The f32 nearest to m * 2^e plus, when sticky, a part below the last bit of
\* m; ties go to the even mantissa.  m >= 2^25 whenever sticky.
RECURSIVE f32_round(_, _, _)
f32_round(m, e, sticky) ==
    IF m = 0 THEN F32(0, 0)
    ELSE IF m >= 2^25 THEN f32_round(m \div 2, e + 1, sticky \/ m % 2 = 1)
    ELSE IF m >= 2^24
    THEN LET q == m \div 2
             r == IF m % 2 = 1 /\ (sticky \/ q % 2 = 1) THEN q + 1 ELSE q
         IN  IF r = 2^24 THEN F32(2^23, e + 2) ELSE F32(r, e + 1)
    ELSE IF m < 2^23 THEN f32_round(m * 2, e - 1, sticky)
    ELSE F32(m, e)

\* n as f32, for an integer 0 <= n < 2^31.
f32_from_int(n) == f32_round(n, 0, FALSE)

\* The product of two integers below 2^24 as hi * 2^24 + lo.
Mul24(x, y) ==
    LET h1  == x \div 4096
        l1  == x % 4096
        h2  == y \div 4096
        l2  == y % 4096
        mid == h1 * l2 + l1 * h2
        s0  == l1 * l2 + (mid % 4096) * 4096
    IN  [hi |-> h1 * h2 + mid \div 4096 + s0 \div 2^24, lo |-> s0 % 2^24]

\* a * b in f32.
f32_mul(a, b) ==
    IF a = NaN \/ b = NaN THEN NaN
    ELSE IF a = Inf \/ b = Inf
    THEN IF (a # Inf /\ a.m = 0) \/ (b # Inf /\ b.m = 0) THEN NaN ELSE Inf
    ELSE IF a.m = 0 \/ b.m = 0 THEN F32(0, 0)
    ELSE LET p == Mul24(a.m, b.m) IN
         f32_round(p.hi * 8 + p.lo \div 2^21, a.e + b.e + 21, p.lo % 2^21 # 0)

\* Long division: k more bits of the quotient q with remainder r.
RECURSIVE DivLoop(_, _, _, _)
DivLoop(q, r, den, k) ==
    IF k = 0 THEN [q |-> q, r |-> r]
    ELSE IF 2 * r >= den THEN DivLoop(2 * q + 1, 2 * r - den, den, k - 1)
    ELSE DivLoop(2 * q, 2 * r, den, k - 1)

\* a / b in f32.
f32_div(a, b) ==
    IF a = NaN \/ b = NaN THEN NaN
    ELSE IF a = Inf THEN (IF b = Inf THEN NaN ELSE Inf)
    ELSE IF b = Inf THEN F32(0, 0)
    ELSE IF b.m = 0 THEN (IF a.m = 0 THEN NaN ELSE Inf)
    ELSE IF a.m = 0 THEN F32(0, 0)
    ELSE LET d == DivLoop(a.m \div b.m, a.m % b.m, b.m, 26) IN
         f32_round(d.q, a.e - b.e - 26, d.r # 0)

\* a + b in f32.
f32_add(a, b) ==
    IF a = NaN \/ b = NaN THEN NaN
    ELSE IF a = Inf \/ b = Inf THEN Inf
    ELSE IF a.m = 0 THEN b
    ELSE IF b.m = 0 THEN a
    ELSE LET x  == IF a.e >= b.e THEN a ELSE b
             y  == IF a.e >= b.e THEN b ELSE a
             d  == x.e - y.e
             m2 == IF d <= 3 THEN y.m * 2^(3 - d)
                   ELSE IF d >= 28 THEN 0
                   ELSE y.m \div 2^(d - 3)
             st == IF d <= 3 THEN FALSE
                   ELSE IF d >= 28 THEN TRUE
                   ELSE y.m % 2^(d - 3) # 0
         IN  f32_round(x.m * 8 + m2, x.e - 3, st)

\* a < b in f32.
f32_lt(a, b) ==
    IF a = NaN \/ b = NaN THEN FALSE
    ELSE IF a = Inf THEN FALSE
    ELSE IF b = Inf THEN TRUE
    ELSE IF b.m = 0 THEN FALSE
    ELSE IF a.m = 0 THEN TRUE
    ELSE a.e < b.e \/ (a.e = b.e /\ a.m < b.m)

\* 1.0f32.
One32 == F32(2^23, -23)

\* NANOS_PER_SEC.
NANOS_PER_SEC == 10^9

\* A Duration of secs seconds and nanos < NANOS_PER_SEC nanoseconds.
Duration(secs, nanos) == [secs |-> secs, nanos |-> nanos]
\* Duration::from_secs.
from_secs(secs) == Duration(secs, 0)
\* The order of Durations.
Duration_lt(a, b) == a.secs < b.secs \/ (a.secs = b.secs /\ a.nanos < b.nanos)
\* Ord::min of two Durations.
Duration_min(a, b) == IF Duration_lt(b, a) THEN b ELSE a
\* Duration + Duration.
Duration_add(a, b) ==
    IF a.nanos + b.nanos >= NANOS_PER_SEC
    THEN Duration(a.secs + b.secs + 1, a.nanos + b.nanos - NANOS_PER_SEC)
    ELSE Duration(a.secs + b.secs, a.nanos + b.nanos)
\* Duration::checked_sub: None when b is longer than a.
checked_sub(a, b) ==
    IF Duration_lt(a, b) THEN None
    ELSE IF a.nanos >= b.nanos
    THEN Duration(a.secs - b.secs, a.nanos - b.nanos)
    ELSE Duration(a.secs - b.secs - 1, a.nanos + NANOS_PER_SEC - b.nanos)

\* Duration::as_secs_f32: (secs as f32) + (nanos as f32) / (NANOS_PER_SEC as f32).
as_secs_f32(d) ==
    f32_add(f32_from_int(d.secs),
            f32_div(f32_from_int(d.nanos), f32_from_int(NANOS_PER_SEC)))

\* (hi * 2^24 + lo) / 2^j rounded to the nearest integer, ties to even.
ShiftRound(hi, lo, j) ==
    IF j <= 24
    THEN LET q   == hi * 2^(24 - j) + lo \div 2^j
             rem == lo % 2^j
             up  == rem > 2^(j - 1) \/ (rem = 2^(j - 1) /\ q % 2 = 1)
         IN  IF up THEN q + 1 ELSE q
    ELSE LET q   == hi \div 2^(j - 24)
             rem == hi % 2^(j - 24)
             hlf == 2^(j - 25)
             up  == \/ rem > hlf
                    \/ rem = hlf /\ lo > 0
                    \/ rem = hlf /\ lo = 0 /\ q % 2 = 1
         IN  IF up THEN q + 1 ELSE q

\* The value a call of Duration::from_secs_f32 panics with.
Panic == [tag |-> "Panic"]

\* Duration::from_secs_f32: the Duration nearest to x seconds, ties to even;
\* a panic for NaN and for a value too large.
from_secs_f32(x) ==
    IF ~IsFinite(x) THEN Panic
    ELSE IF x.m = 0 THEN Duration(0, 0)
    ELSE IF x.e >= 0 THEN Duration(x.m * 2^x.e, 0)
    ELSE LET k == -x.e IN
         IF k > 54 THEN Duration(0, 0)
         ELSE LET secs  == IF k < 24 THEN x.m \div 2^k ELSE 0
                  frac  == IF k < 24 THEN x.m % 2^k ELSE x.m
                  p     == Mul24(frac, 5^9)
                  nanos == IF k <= 9 THEN frac * 5^9 * 2^(9 - k)
                           ELSE ShiftRound(p.hi, p.lo, k - 9)
              IN  IF nanos = NANOS_PER_SEC THEN Duration(secs + 1, 0)
                  ELSE Duration(secs, nanos)

\* Duration::mul_f32: from_secs_f32(rhs * self.as_secs_f32()).
mul_f32(d, rhs) == from_secs_f32(f32_mul(rhs, as_secs_f32(d)))

----------------------------------------------------------------------------
(* Review history, stability and recall rate *)

\* enum Grade.
Grades == {"None", "Late", "Some", "Perfect"}

\* Grade::get_factor: 0.1, 0.25, 2. and 3. as f32.
get_factor(grade) ==
    CASE grade = "None"    -> F32(13421773, -27)
      [] grade = "Late"    -> F32(2^23, -25)
      [] grade = "Some"    -> F32(2^23, -22)
      [] grade = "Perfect" -> F32(12582912, -22)

\* Duration - Duration: a panic when b is longer than a.
Duration_sub(a, b) ==
    LET r == checked_sub(a, b) IN IF r = None THEN Panic ELSE r

\* The seconds of Duration::from_secs(86400), one day.
DaySecs == 86400

\* new_stability.  time_passed is None or a Duration; the result is a
\* Duration, or Panic when Duration::from_secs_f32 panics.
new_stability(grade, time_passed, current_stability) ==
    LET grade_factor == get_factor(grade)
        tp == IF time_passed = None THEN from_secs(DaySecs) ELSE time_passed
    IN  IF f32_lt(grade_factor, One32)
        THEN mul_f32(Duration_min(tp, current_stability), grade_factor)
        ELSE LET alternative_stability == mul_f32(tp, grade_factor) IN
             IF Duration_lt(current_stability, alternative_stability)
             THEN alternative_stability
             ELSE LET interpolation_ratio ==
                          f32_mul(f32_div(as_secs_f32(tp),
                                          as_secs_f32(current_stability)),
                                  grade_factor)
                      boost == from_secs_f32(
                                   f32_mul(as_secs_f32(current_stability),
                                           interpolation_ratio))
                  IN  IF boost = Panic THEN Panic
                      ELSE Duration_add(current_stability, boost)

\* The for loop of stability over reviews[i..].  steps lists the calls of
\* new_stability of the fold: grade, time passed, stability before and after.
RECURSIVE stability_loop(_, _, _, _, _)
stability_loop(reviews, i, stab, prev_timestamp, steps) ==
    IF i > Len(reviews) THEN [ret |-> stab, steps |-> steps]
    ELSE IF Duration_lt(reviews[i].timestamp, prev_timestamp)
    THEN [ret |-> None, steps |-> steps]
    ELSE LET time_passed == Duration_sub(reviews[i].timestamp, prev_timestamp)
             next == new_stability(reviews[i].grade, time_passed, stab)
             step == [grade |-> reviews[i].grade, time_passed |-> time_passed,
                      current |-> stab, ret |-> next]
         IN  IF next = Panic
             THEN [ret |-> Panic, steps |-> Append(steps, step)]
             ELSE stability_loop(reviews, i + 1, next, reviews[i].timestamp,
                                 Append(steps, step))

\* stability seeded as if the first review came with no time passed.
stability_SeedElapsed(reviews) ==
    IF reviews = <<>> THEN [ret |-> None, steps |-> <<>>]
    ELSE LET first == new_stability(reviews[1].grade, Duration(0, 0),
                                    from_secs(DaySecs))
             step  == [grade |-> reviews[1].grade, time_passed |-> None,
                       current |-> from_secs(DaySecs), ret |-> first]
         IN  stability_loop(reviews, 2, first, reviews[1].timestamp, <<step>>)

\* stability: None for no reviews and for a review older than the one before
\* it, Panic when a step panics, the Duration of the last step otherwise.
stability(reviews) ==
    IF reviews = <<>> THEN [ret |-> None, steps |-> <<>>]
    ELSE LET first == new_stability(reviews[1].grade, None, from_secs(DaySecs))
             step  == [grade |-> reviews[1].grade, time_passed |-> None,
                       current |-> from_secs(DaySecs), ret |-> first]
         IN  stability_loop(reviews, 2, first, reviews[1].timestamp, <<step>>)

\* time_passed without unwrap_or_default.
time_passed_Unclamped(review, now) == checked_sub(now, review.timestamp)

\* Review::time_passed at the current time now:
\* current_unix.checked_sub(unix).unwrap_or_default().
time_passed(review, now) ==
    LET r == checked_sub(now, review.timestamp) IN
    IF r = None THEN Duration(0, 0) ELSE r

\* Reviews::time_since_last_review.
time_since_last_review(reviews, now) ==
    IF reviews = <<>> THEN None
    ELSE time_passed(reviews[Len(reviews)], now)

\* calculate_recall_rate with the quotient upside down.
calculate_recall_rate_Inverted(days_passed, stab) ==
    [ratio |-> f32_div(as_secs_f32(stab), as_secs_f32(days_passed))]

\* calculate_recall_rate: (0.9f32.ln() * ratio).exp() is a function of ratio,
\* the f32 quotient of the two Durations, and is kept as that ratio.
calculate_recall_rate(days_passed, stab) ==
    [ratio |-> f32_div(as_secs_f32(days_passed), as_secs_f32(stab))]

\* recall_rate at the current time now.
recall_rate(reviews, now) ==
    LET days_passed == time_since_last_review(reviews, now) IN
    IF days_passed = None THEN None
    ELSE LET stab == stability(reviews).ret IN
         IF stab = None THEN None
         ELSE IF stab = Panic THEN Panic
         ELSE calculate_recall_rate(days_passed, stab)

----------------------------------------------------------------------------
(* The review history: operations *)

\* Longest review history of the model.
MaxLog == 3

\* The instants of the model, as times since the epoch: the epoch, a
\* nanosecond later, one day later, a nanosecond after that, three days.
Instants ==
    {Duration(0, 0), Duration(0, 1), Duration(DaySecs, 0),
     Duration(DaySecs, 1), Duration(3 * DaySecs, 0)}

\* A card without reviews.
InitReviews ==
    /\ disk = InitDisk
    /\ clock = 0
    /\ cache = new_empty
    /\ index = NoIndex
    /\ last = NoCall
    /\ history = <<>>
    /\ held = NoHeld
    /\ arcs = <<>>
    /\ handle = None

\* history.add_review(Review::new(grade, ..)) at the current time now.
AddReview(grade, now) ==
    /\ Len(history) < MaxLog
    /\ history' = Append(history, [timestamp |-> now, grade |-> grade])
    /\ last' = NoCall
    /\ UNCHANGED <<disk, clock, cache, index, held, arcs, handle>>

\* stability(&history).
Stability ==
    LET r == stability(history) IN
    /\ last' = [op |-> "stability", ret |-> r.ret, steps |-> r.steps]
    /\ UNCHANGED <<disk, clock, cache, index, history, held, arcs, handle>>

\* recall_rate(&history) at the current time now.
RecallRate(now) ==
    /\ last' = [op |-> "recall_rate", now |-> now,
                days_passed |-> time_since_last_review(history, now),
                ret |-> recall_rate(history, now)]
    /\ UNCHANGED <<disk, clock, cache, index, history, held, arcs, handle>>

NextReviews ==
    \/ \E grade \in Grades, now \in Instants : AddReview(grade, now)
    \/ Stability
    \/ \E now \in Instants : RecallRate(now)

SpecReviews == InitReviews /\ [][NextReviews]_vars

----------------------------------------------------------------------------
(* Properties of the cache *)

\* No card file of the collection carries the id.
NoFileCarries(d, id) == \A p \in Paths : d[p] = None \/ d[p].id # id

\* C1: when the file of a cached card is strictly newer than the cached
\* snapshot at the call of try_get_ref(id), the call reloads the card from the
\* cached path, replaces the slot of id and returns the reloaded snapshot,
\* whose last_modified is the file's modification time; and no lookup returns
\* a snapshot older than its file.
C1_OutdatedIsReloaded ==
    last.op = "try_get_ref" =>
        /\ ( /\ last.pre # None
             /\ disk[last.pre.path] # None
             /\ disk[last.pre.path].mtime > last.pre.last_modified )
           => /\ last.ret # None
              /\ last.ret.path = last.pre.path
              /\ last.ret.id = disk[last.pre.path].id
              /\ last.ret.dependencies = disk[last.pre.path].dependencies
              /\ last.ret.last_modified = disk[last.pre.path].mtime
              /\ cache[last.id] = last.ret
        /\ (last.ret # None /\ disk[last.ret.path] # None)
           => last.ret.last_modified >= disk[last.ret.path].mtime

\* A lookup has just reloaded a card whose file had been edited since it was
\* cached.
C1_Witness ==
    /\ last.op = "try_get_ref"
    /\ last.pre # None
    /\ last.ret # None
    /\ last.ret.path = last.pre.path
    /\ last.pre.last_modified < last.ret.last_modified
    /\ last.pre.dependencies # last.ret.dependencies

\* C2: try_get_ref(id) returns None whenever id has no slot, or the path of
\* its slot no longer exists, and no card file of the collection carries id.
C2_AbsentWhenNotFound ==
    ( /\ last.op = "try_get_ref"
      /\ (last.pre = None \/ disk[last.pre.path] = None)
      /\ NoFileCarries(disk, last.id) )
    => last.ret = None

\* C3: when the cached snapshot is at least as new as its file at the call of
\* try_get_ref(id), the call returns the cached snapshot and leaves every slot
\* of the cache as it was.
C3_UpToDateLeavesCache ==
    [][ \A id \in Ids :
          ( /\ last'.op = "try_get_ref"
            /\ last'.id = id
            /\ cache[id] # None
            /\ disk[cache[id].path] # None
            /\ cache[id].last_modified >= disk[cache[id].path].mtime )
          => (cache' = cache /\ last'.ret = cache[id]) ]_vars

\* A lookup has just returned an up-to-date snapshot while another slot of the
\* cache is outdated.
C3_Witness ==
    /\ last.op = "try_get_ref"
    /\ last.pre # None
    /\ last.ret = last.pre
    /\ disk[last.ret.path] # None
    /\ last.ret.last_modified >= disk[last.ret.path].mtime
    /\ \E i \in Ids \ {last.id} :
          /\ cache[i] # None
          /\ disk[cache[i].path] # None
          /\ cache[i].last_modified < disk[cache[i].path].mtime

----------------------------------------------------------------------------
(* Properties of the dependency resolver *)

\* The dependency edges the cache holds for x: none without a slot.
CachedEdges(c, x) ==
    IF c[x] = None THEN {}
    ELSE c[x].dependencies \cup (IF c[x].back = Text THEN {} ELSE {c[x].back})

\* The least set that contains S and is closed under the cached edges.
RECURSIVE Closure(_, _)
Closure(c, S) ==
    LET T == S \cup UNION {CachedEdges(c, x) : x \in S} IN
    IF T = S THEN S ELSE Closure(c, T)

\* The ids reachable from id by one or more cached edges.
Reachable(c, id) == Closure(c, CachedEdges(c, id))

\* C4: recursive_dependencies(id) returns exactly the ids reachable from id by
\* one or more dependency edges, without id itself even when id lies on a
\* cycle.  (Every reachable id was looked up by the call, so its slot holds
\* the edges the call followed.)
C4_ExactClosure ==
    last.op = "recursive_dependencies" =>
        last.ret = Reachable(cache, last.id) \ {last.id}

\* recursive_dependencies was asked for A on the cycle A -> B -> A and
\* returned {B}.
C4_Witness ==
    /\ last.op = "recursive_dependencies"
    /\ last.id = 1
    /\ CachedEdges(cache, 1) = {2}
    /\ CachedEdges(cache, 2) = {1}
    /\ last.ret = {2}

\* The elements of a sequence are pairwise different.
NoDuplicates(seq) ==
    \A i, j \in 1 .. Len(seq) : i # j => seq[i] # seq[j]

\* C5: recursive_dependencies(id) terminates on every dependency graph: the
\* loop ends within its limit of iterations, no id is expanded twice and the
\* number of expansions is at most the number of ids.
C5_Terminates ==
    last.op = "recursive_dependencies" =>
        /\ last.finished
        /\ NoDuplicates(last.expanded)
        /\ Len(last.expanded) <= Cardinality(Ids)

\* recursive_dependencies was asked for an id that lies on a cycle and
\* expanded at least two cards.
C5_Witness ==
    /\ last.op = "recursive_dependencies"
    /\ last.id \in Reachable(cache, last.id)
    /\ Len(last.expanded) >= 2

\* C6: a dependency id no card can be resolved for is a dead end:
\* dependencies(id) of an id that no card file carries is empty, and
\* recursive_dependencies follows no edge out of such an id.
C6_DanglingIsDeadEnd ==
    /\ ( last.op = "dependencies" /\ NoFileCarries(disk, last.id) )
       => last.ret = {}
    /\ last.op = "recursive_dependencies" =>
          /\ last.finished
          /\ \A x \in last.ret :
                \E y \in {last.id} \cup last.ret :
                    /\ ~NoFileCarries(disk, y)
                    /\ x \in CachedEdges(cache, y)

----------------------------------------------------------------------------
(* Properties of is_resolved and of the location index *)

\* The path of the card file that carries id.
PathOf(d, id) == CHOOSE p \in Paths : d[p] # None /\ d[p].id = id

\* The dependency edges the card files hold for x: none without a file.
FileEdges(d, x) ==
    IF NoFileCarries(d, x) THEN {}
    ELSE d[PathOf(d, x)].dependencies \cup
         (IF d[PathOf(d, x)].back = Text THEN {} ELSE {d[PathOf(d, x)].back})

\* The least set that contains S and is closed under the files' edges.
RECURSIVE FileClosure(_, _)
FileClosure(d, S) ==
    LET T == S \cup UNION {FileEdges(d, x) : x \in S} IN
    IF T = S THEN S ELSE FileClosure(d, T)

\* The recursive dependency closure of id in the collection.
FileReachable(d, id) == FileClosure(d, FileEdges(d, id))

\* Every card of the closure of id that has a file is finished.
AllFinished(d, id) ==
    \A x \in FileReachable(d, id) :
        NoFileCarries(d, x) \/ d[PathOf(d, x)].finished

\* C7: is_resolved(id) returns, and returns true exactly when every card of
\* the recursive dependency closure of id that can be resolved is finished; a
\* dangling dependency id neither makes it false nor makes the call fail.
C7_ResolvedIffAllFinished ==
    last.op = "is_resolved" =>
        /\ ~last.aborted
        /\ last.ret <=> AllFinished(disk, last.id)

C10_NeverOwnDependent ==
    \A id \in Ids : index[id] # None => id \notin index[id].dependents

----------------------------------------------------------------------------
(* Properties of the lookups of the location index *)

\* C11: add_dependent(of, dependent) leaves the index as it is when of is the
\* dependent or when the entry of of already lists the dependent, and the
\* same call made once more on the index it left changes nothing.
C11_AddDependentIdempotent ==
    [][ last'.op = "add_dependent" =>
          /\ ( \/ last'.of = last'.dependent
               \/ /\ index[last'.of] # None
                  /\ last'.dependent \in index[last'.of].dependents )
             => index' = index
          /\ add_dependent(index', disk', last'.of, last'.dependent) = index'
      ]_vars

\* add_dependent has just been called for a dependent that the entry of of
\* lists although no card file declares that edge: an earlier call put it
\* there.
C11_Witness ==
    /\ last.op = "add_dependent"
    /\ last.of # last.dependent
    /\ index[last.of] # None
    /\ last.dependent \in index[last.of].dependents
    /\ last.dependent \notin dependents_of(load_all_cards(disk), last.of)

\* C12: path_from_id(id) of an id that no card file carries returns None
\* after exactly one sync, and no call syncs more than once.
C12_UnknownIdOneResync ==
    last.op = "path_from_id" =>
        /\ last.syncs <= 1
        /\ NoFileCarries(disk, last.id) =>
              (last.ret = None /\ last.syncs = 1)

\* C13: path_from_id(id) of an id that a card file carries and that the index
\* has no entry of, or an entry with a path that is gone, syncs the index
\* and returns the path of that file; None is returned only for an id no
\* card file carries.
C13_SelfHeals ==
    last.op = "path_from_id" =>
        /\ ( /\ last.pre = None \/ ~path_exists(disk, last.pre.path)
             /\ ~NoFileCarries(disk, last.id) )
           => /\ last.ret = Some(PathOf(disk, last.id))
              /\ last.syncs = 1
              /\ index[last.id] # None
              /\ index[last.id].path = PathOf(disk, last.id)
        /\ last.ret = None => NoFileCarries(disk, last.id)

\* path_from_id has just returned the new path of a card whose file was
\* moved after the index recorded its old path.
C13_Witness ==
    /\ last.op = "path_from_id"
    /\ last.pre # None
    /\ last.syncs = 1
    /\ last.ret = Some(SparePath)
    /\ last.pre.path # SparePath

----------------------------------------------------------------------------
(* Properties of the review history *)

\* reviews has a review older than the one before it.
OutOfOrder(reviews) ==
    \E i \in 2..Len(reviews) :
        Duration_lt(reviews[i].timestamp, reviews[i - 1].timestamp)

\* Every review of reviews is later than the one before it.
Increasing(reviews) ==
    \A i \in 2..Len(reviews) :
        Duration_lt(reviews[i - 1].timestamp, reviews[i].timestamp)

\* The left fold of new_stability over the first n reviews, for reviews in
\* order; Panic when a step panics.
RECURSIVE fold_new_stability(_, _)
fold_new_stability(reviews, n) ==
    IF n = 1
    THEN new_stability(reviews[1].grade, None, from_secs(DaySecs))
    ELSE LET prev == fold_new_stability(reviews, n - 1) IN
         IF prev = Panic THEN Panic
         ELSE new_stability(reviews[n].grade,
                            Duration_sub(reviews[n].timestamp,
                                         reviews[n - 1].timestamp),
                            prev)

\* The time passed of a step of the fold, one day when there is none.
StepElapsed(step) ==
    IF step.time_passed = None THEN from_secs(DaySecs) ELSE step.time_passed

\* a and b differ by no more than a millionth of c and a microsecond, the
\* room f32 rounding takes.
Near(a, b, c) ==
    LET diff == IF Duration_lt(a, b) THEN checked_sub(b, a)
                ELSE checked_sub(a, b)
    IN  ~Duration_lt(Duration(0, c.secs * 1000 + 1000), diff)

\* C14: stability returns None exactly for the empty history and for a
\* history with a review older than the one before it; for every other
\* history it returns a Duration, the left fold of new_stability.
C14_StabilityAbsentOrFold ==
    last.op = "stability" =>
        /\ (last.ret = None) <=> (history = <<>> \/ OutOfOrder(history))
        /\ last.ret # None =>
               /\ last.ret # Panic
               /\ last.ret = fold_new_stability(history, Len(history))

\* C15: a step of the fold with grade None or Late returns
\* min(time passed, current) * factor, which is shorter than the current
\* stability and no longer than time passed * factor.
C15_FailureShrinks ==
    last.op = "stability" =>
        \A i \in 1..Len(last.steps) :
            LET step == last.steps[i]
                factor == get_factor(step.grade)
            IN  step.grade \in {"None", "Late"} =>
                    /\ step.ret = mul_f32(Duration_min(StepElapsed(step),
                                                       step.current), factor)
                    /\ Duration_lt(step.ret, step.current)
                    /\ ~Duration_lt(mul_f32(StepElapsed(step), factor),
                                    step.ret)

\* C16: a step of the fold with grade Some or Perfect returns candidate =
\* time passed * factor when that is longer than the current stability, and
\* otherwise a Duration that is current + candidate up to f32 rounding; the
\* time passed is one day when there is none.
C16_SuccessGrows ==
    last.op = "stability" =>
        \A i \in 1..Len(last.steps) :
            LET step == last.steps[i]
                candidate == mul_f32(StepElapsed(step),
                                     get_factor(step.grade))
            IN  step.grade \in {"Some", "Perfect"} =>
                    IF Duration_lt(step.current, candidate)
                    THEN step.ret = candidate
                    ELSE /\ step.ret # Panic
                         /\ Near(step.ret,
                                 Duration_add(step.current, candidate),
                                 candidate)

\* C17: for a history that is not empty and whose reviews are each later
\* than the one before, stability returns a Duration longer than zero, and
\* no step of the fold panics.
C17_PositiveFinite ==
    last.op = "stability" /\ history # <<>> /\ Increasing(history) =>
        /\ last.ret # None
        /\ last.ret # Panic
        /\ Duration_lt(Duration(0, 0), last.ret)
        /\ \A i \in 1..Len(last.steps) : last.steps[i].ret # Panic

\* The history of one None review at the epoch and one Perfect review a day
\* later.
FailThenPass ==
    <<[timestamp |-> from_secs(0), grade |-> "None"],
      [timestamp |-> from_secs(DaySecs), grade |-> "Perfect"]>>

\* C18: the first step of the fold is new_stability(first grade, no time
\* passed, one day); for a None review at the epoch and a Perfect review a
\* day later the stability is a tenth of a day after the first review and
\* three days at the end.
C18_SeedAndExample ==
    last.op = "stability" /\ history # <<>> =>
        /\ last.steps[1].time_passed = None
        /\ last.steps[1].current = from_secs(DaySecs)
        /\ last.steps[1].ret =
               new_stability(history[1].grade, None, from_secs(DaySecs))
        /\ history = FailThenPass =>
               /\ last.steps[1].ret = from_secs(DaySecs \div 10)
               /\ last.ret = from_secs(3 * DaySecs)

\* stability was called on the history of C18.
C18_Witness ==
    /\ last.op = "stability"
    /\ history = FailThenPass
    /\ last.ret = from_secs(3 * DaySecs)

\* C19: the time since the last review is the current time less the
\* review's timestamp, and zero when the timestamp is later than the current
\* time; recall_rate returns None exactly for the empty history and for a
\* history whose stability is None.
C19_ElapsedClamped ==
    last.op = "recall_rate" =>
        /\ history # <<>> =>
               LET unix == history[Len(history)].timestamp IN
               /\ last.days_passed # None
               /\ ~Duration_lt(last.days_passed, Duration(0, 0))
               /\ Duration_lt(last.now, unix) =>
                      last.days_passed = Duration(0, 0)
               /\ ~Duration_lt(last.now, unix) =>
                      Duration_add(unix, last.days_passed) = last.now
        /\ (last.ret = None) <=>
               (history = <<>> \/ stability(history).ret = None)

\* recall_rate was called at a time before the last review and returned a
\* rate for no time passed.
C19_Witness ==
    /\ last.op = "recall_rate"
    /\ history # <<>>
    /\ Duration_lt(last.now, history[Len(history)].timestamp)
    /\ last.days_passed = Duration(0, 0)
    /\ last.ret # None
    /\ last.ret # Panic

\* The history is one Perfect review.
SinglePerfect == Len(history) = 1 /\ history[1].grade = "Perfect"

\* A rate is exp(ln 0.9 * ratio): it is 1.0 for the ratio 0, exp(ln 0.9) for
\* the ratio 1, within [0, 1] for every finite ratio, and a rate can be lower
\* than another only when its ratio is higher.
rate_is_one(rate) == rate.ratio = F32(0, 0)
rate_is_base(rate) == rate.ratio = One32
rate_in_unit(rate) == rate.ratio # NaN
rate_lt(a, b) == f32_lt(b.ratio, a.ratio)

\* What C20 says of recall_rate but for how it changes with the current
\* time: for one Perfect review at t0 and a current time of t0 or later it
\* is a rate within [0, 1], 1.0 at t0 and exp(ln 0.9) when the time passed
\* is the stability.
PerfectCurve ==
    /\ last.ret # None
    /\ last.ret # Panic
    /\ rate_in_unit(last.ret)
    /\ last.now = history[1].timestamp => rate_is_one(last.ret)
    /\ last.days_passed = stability(history).ret => rate_is_base(last.ret)

\* C20 as stated: for one Perfect review at t0 the rate is 1.0 at t0, within
\* [0, 1], exp(ln 0.9) after one stability, and lower at every later current
\* time.
C20_StrictDecay ==
    (/\ last.op = "recall_rate"
     /\ SinglePerfect
     /\ ~Duration_lt(last.now, history[1].timestamp)) =>
        /\ PerfectCurve
        /\ \A later \in Instants :
               Duration_lt(last.now, later) =>
                   rate_lt(recall_rate(history, later), last.ret)

\* C20: for one Perfect review at t0 the rate is 1.0 at t0, within [0, 1],
\* exp(ln 0.9) after one stability, and never higher at a later current
\* time.
C20_Decay ==
    (/\ last.op = "recall_rate"
     /\ SinglePerfect
     /\ ~Duration_lt(last.now, history[1].timestamp)) =>
        /\ PerfectCurve
        /\ \A later \in Instants :
               Duration_lt(last.now, later) =>
                   ~rate_lt(last.ret, recall_rate(history, later))

\* recall_rate was called one stability after a single Perfect review.
C20_Witness ==
    /\ last.op = "recall_rate"
    /\ SinglePerfect
    /\ last.days_passed = from_secs(3 * DaySecs)
    /\ rate_is_base(last.ret)

----------------------------------------------------------------------------
(* The review file: a review history saved and read back *)

\* Review::serialize: the timestamp in whole seconds
\* (serde_duration_as_secs::serialize) and the grade.
Review_serialize(review) ==
    [timestamp |-> review.timestamp.secs, grade |-> review.grade]

\* Serialize for Reviews: the reviews in the order of the history.
Reviews_serialize(reviews) ==
    [i \in 1..Len(reviews) |-> Review_serialize(reviews[i])]

\* Review::deserialize: the Review of a stored review
\* (serde_duration_as_secs::deserialize).
Review_deserialize(stored) ==
    [timestamp |-> from_secs(stored.timestamp), grade |-> stored.grade]

\* Vec::<Review>::deserialize.
Vec_deserialize(stored) ==
    [i \in 1..Len(stored) |-> Review_deserialize(stored[i])]

\* Vec::sort_by_key(|review| review.timestamp) of the first n reviews: a
\* stable sort, a review goes behind the reviews that are not later than it.
RECURSIVE sort_by_key(_, _)
sort_by_key(reviews, n) ==
    IF n = 0 THEN <<>>
    ELSE LET sorted == sort_by_key(reviews, n - 1)
             review == reviews[n]
             k == Cardinality({i \in 1..Len(sorted) :
                     ~Duration_lt(review.timestamp, sorted[i].timestamp)})
         IN  SubSeq(sorted, 1, k) \o <<review>> \o
             SubSeq(sorted, k + 1, Len(sorted))

\* Deserialize for Reviews without the sort.
Reviews_deserialize_Unsorted(stored) == Vec_deserialize(stored)

\* Deserialize for Reviews.
Reviews_deserialize(stored) ==
    LET reviews == Vec_deserialize(stored) IN
    sort_by_key(reviews, Len(reviews))

\* The history is written to the review file (save_reviews) and the card is
\* loaded again (from_path): the history is what the file deserializes to.
\* stored is the content of the file.
ReloadReviews ==
    LET stored == Reviews_serialize(history) IN
    /\ history' = Reviews_deserialize(stored)
    /\ last' = [op |-> "deserialize", stored |-> stored]
    /\ UNCHANGED <<disk, clock, cache, index, held, arcs, handle>>

NextStore ==
    \/ \E grade \in Grades, now \in Instants : AddReview(grade, now)
    \/ ReloadReviews

SpecStore == InitReviews /\ [][NextStore]_vars

\* The number of places of the sequence s that hold e.
Count(s, e) == Cardinality({i \in 1..Len(s) : s[i] = e})

\* C21: the history a review file deserializes to holds every stored review
\* as often as the file does and nothing else, and no review of it is older
\* than the one before it, whatever the order of the file.
C21_DeserializeSorts ==
    last.op = "deserialize" =>
        /\ Len(history) = Len(last.stored)
        /\ \A i \in 1..Len(last.stored) :
               Count(history, Review_deserialize(last.stored[i]))
                   = Count(last.stored, last.stored[i])
        /\ ~OutOfOrder(history)

\* A review file whose reviews are out of order and hold one review twice
\* was read.
C21_Witness ==
    /\ last.op = "deserialize"
    /\ Len(last.stored) = MaxLog
    /\ last.stored[1] = last.stored[3]
    /\ last.stored[2].timestamp < last.stored[1].timestamp
    /\ history[1].timestamp = from_secs(last.stored[2].timestamp)

----------------------------------------------------------------------------
(* Cards held outside the cache: a SavedCard of the holder's own *)

\* SavedCard::is_outdated: whether the file is newer than the card; a panic
\* when the file is gone (metadata(path).unwrap()) and when the card is newer
\* than the file.
is_outdated(d, card) ==
    IF ~path_exists(d, card.path) THEN [panic |-> TRUE, ret |-> FALSE]
    ELSE IF card.last_modified < d[card.path].mtime
    THEN [panic |-> FALSE, ret |-> TRUE]
    ELSE IF card.last_modified = d[card.path].mtime
    THEN [panic |-> FALSE, ret |-> FALSE]
    ELSE [panic |-> TRUE, ret |-> FALSE]

\* persist that does not write an outdated card.
SavedCard_persist_RejectStale(d, card, t) ==
    LET o == is_outdated(d, card) IN
    IF o.panic \/ o.ret
    THEN [panic |-> o.panic, outdated |-> o.ret, wrote |-> FALSE,
          disk |-> d, self |-> card]
    ELSE LET d2 == persist(d, card, t) IN
         [panic |-> FALSE, outdated |-> o.ret, wrote |-> TRUE,
          disk |-> d2, self |-> from_path(d2, card.path)]

\* SavedCard::persist with its check and its reload: the card is written to
\* its file at time t whether it is outdated or not, and self becomes the
\* card read back from the file.
SavedCard_persist(d, card, t) ==
    LET o == is_outdated(d, card) IN
    IF o.panic
    THEN [panic |-> TRUE, outdated |-> FALSE, wrote |-> FALSE,
          disk |-> d, self |-> card]
    ELSE LET d2 == persist(d, card, t) IN
         [panic |-> FALSE, outdated |-> o.ret, wrote |-> TRUE,
          disk |-> d2, self |-> from_path(d2, card.path)]

\* SavedCard::set_dependency on a held card: the result of persist and the
\* index after add_dependent.
self_set_dependency(ix, d, card, dependency, t) ==
    IF card.id = dependency
    THEN [panic |-> FALSE, outdated |-> FALSE, wrote |-> FALSE,
          disk |-> d, self |-> card, index |-> ix]
    ELSE LET r == SavedCard_persist(
                      d, [card EXCEPT !.dependencies = @ \cup {dependency}], t)
         IN  [panic |-> r.panic, outdated |-> r.outdated, wrote |-> r.wrote,
              disk |-> r.disk, self |-> r.self,
              index |-> IF r.panic THEN ix
                        ELSE add_dependent(ix, r.disk, dependency, card.id)]

\* SavedCard::rm_dependency on a held card.
self_rm_dependency(d, card, dependency, t) ==
    SavedCard_persist(d, [card EXCEPT !.dependencies = @ \ {dependency}], t)

\* A holder loads the card of the file at p (SavedCard::from_path).
Load(h, p) ==
    /\ path_exists(disk, p)
    /\ held' = [held EXCEPT ![h] = from_path(disk, p)]
    /\ last' = NoCall
    /\ UNCHANGED <<disk, clock, cache, index, history, arcs, handle>>

\* What a mutation of the card of holder h leaves behind: r is the result of
\* the mutation and written the card it handed to persist.
SelfMutation(op, h, written, r, ix) ==
    /\ held[h] # None
    /\ clock < MaxTime
    /\ disk' = r.disk
    /\ clock' = IF r.wrote THEN clock + 1 ELSE clock
    /\ held' = [held EXCEPT ![h] = r.self]
    /\ index' = ix
    /\ last' = [op |-> op, h |-> h, written |-> written,
                panic |-> r.panic, outdated |-> r.outdated, wrote |-> r.wrote]
    /\ UNCHANGED <<cache, history, arcs, handle>>

\* card.persist() on the card of holder h; new_review is this as well, the
\* review going to the review file and not to the card file.
HeldPersist(h) ==
    /\ held[h] # None
    /\ SelfMutation("persist", h, held[h],
                    SavedCard_persist(disk, held[h], clock + 1), index)

\* card.set_dependency(dependency) on the card of holder h.
HeldSetDependency(h, dependency) ==
    /\ held[h] # None
    /\ LET r == self_set_dependency(index, disk, held[h], dependency,
                                    clock + 1)
       IN  SelfMutation("set_dependency", h,
                        [held[h] EXCEPT !.dependencies = @ \cup {dependency}],
                        r, r.index)

\* card.rm_dependency(dependency) on the card of holder h.
HeldRmDependency(h, dependency) ==
    /\ held[h] # None
    /\ SelfMutation("rm_dependency", h,
                    [held[h] EXCEPT !.dependencies = @ \ {dependency}],
                    self_rm_dependency(disk, held[h], dependency, clock + 1),
                    index)

\* Number of ids a holder declares, and takes back, as a dependency.
NumHeldDeps == 1

HeldDeps == 1 .. NumHeldDeps

\* Holders that load, change and persist cards of their own while card files
\* are removed and moved.
NextHolders ==
    \/ \E h \in Holders, p \in Paths : Load(h, p)
    \/ \E h \in Holders : HeldPersist(h)
    \/ \E h \in Holders, dep \in HeldDeps : HeldSetDependency(h, dep)
    \/ \E h \in Holders, dep \in HeldDeps : HeldRmDependency(h, dep)
    \/ \E id \in Ids : RemoveFile(id)
    \/ \E p \in Paths : MoveFile(p)

SpecHolders == Init /\ [][NextHolders]_vars

\* The calls that hand a card to persist.
SelfMutations == {"persist", "set_dependency", "rm_dependency"}

\* The file at the card's path holds what the card holds.
FileHolds(d, card) ==
    /\ path_exists(d, card.path)
    /\ d[card.path].id = card.id
    /\ d[card.path].dependencies = card.dependencies
    /\ d[card.path].back = card.back
    /\ d[card.path].finished = card.finished

C23_NeverNewerThanFile ==
    /\ \A h \in Holders :
           (held[h] # None /\ path_exists(disk, held[h].path)) =>
               held[h].last_modified <= disk[held[h].path].mtime
    /\ (last.op \in SelfMutations /\ last.wrote) =>
           held[last.h].last_modified = disk[held[last.h].path].mtime

----------------------------------------------------------------------------
(* The cache as a map of shared snapshots: HashMap<Id, Arc<SavedCard>> *)

\* Largest number of snapshots the cache allocates.
MaxArcs == 2 * NumIds

\* The cards the slots of c point to: a slot holds None or, as arc, the
\* place in arcs of its Arc<SavedCard>.
Deref(c, a) == [id \in Ids |-> IF c[id] = None THEN None ELSE a[c[id].arc]]

\* An insert that writes the card into the snapshot the slot already has.
Arc_insert_InPlace(c, a, id, card) ==
    IF c[id] # None
    THEN [cache |-> c, arcs |-> [a EXCEPT ![c[id].arc] = card]]
    ELSE [cache |-> [c EXCEPT ![id] = [arc |-> Len(a) + 1]], arcs |-> Append(a, card)]

\* self.0.insert(id, card.into()): a new Arc is allocated for the card and
\* the slot points to it; the Arc the slot had is left as it is.
Arc_insert(c, a, id, card) ==
    [cache |-> [c EXCEPT ![id] = [arc |-> Len(a) + 1]], arcs |-> Append(a, card)]

\* CardCache::maybe_update on the map of Arcs.
Arc_maybe_update(c, a, d, id) ==
    LET status == CardCacheStatus(Deref(c, a), d, id) IN
    CASE status = "UpToDate" -> [cache |-> c, arcs |-> a]
      [] status = "NeedsUpdate" ->
            Arc_insert(c, a, id, from_path(d, a[c[id].arc].path))
      [] OTHER ->
            IF from_id(d, id) # None
            THEN Arc_insert(c, a, id, from_id(d, id))
            ELSE [cache |-> c, arcs |-> a]

\* CardCache::cache_all from the card of id on: cache_one for every card of
\* the collection.
RECURSIVE Arc_cache_all(_, _, _, _)
Arc_cache_all(c, a, d, id) ==
    IF id > NumIds THEN [cache |-> c, arcs |-> a]
    ELSE IF from_id(d, id) = None THEN Arc_cache_all(c, a, d, id + 1)
    ELSE LET r == Arc_insert(c, a, id, from_id(d, id)) IN
         Arc_cache_all(r.cache, r.arcs, d, id + 1)

\* The collection of Init and the cache CardCache::new() builds from it; no
\* handle was taken.
InitSnapshots ==
    /\ disk = InitDisk
    /\ clock = 0
    /\ cache = Arc_cache_all(new_empty, <<>>, InitDisk, 1).cache
    /\ index = NoIndex
    /\ last = NoCall
    /\ history = <<>>
    /\ held = NoHeld
    /\ arcs = Arc_cache_all(new_empty, <<>>, InitDisk, 1).arcs
    /\ handle = None

\* The cache after an operation: r holds its slots and its allocations.
Snapshots(r) ==
    /\ Len(r.arcs) <= MaxArcs
    /\ cache' = r.cache
    /\ arcs' = r.arcs

\* cache.try_get_ref(id): the caller gets a clone of the slot's Arc, if
\* any, and sees the card seen through it.
GetRef(id) ==
    LET r == Arc_maybe_update(cache, arcs, disk, id) IN
    /\ Snapshots(r)
    /\ handle' = IF r.cache[id] = None THEN None
                 ELSE [arc  |-> r.cache[id].arc,
                       seen |-> r.arcs[r.cache[id].arc]]
    /\ last' = NoCall
    /\ UNCHANGED <<disk, clock, index, history, held>>

\* cache.insert(card) with a card just loaded from its file.
ArcInsert(p) ==
    /\ path_exists(disk, p)
    /\ Snapshots(Arc_insert(cache, arcs, disk[p].id, from_path(disk, p)))
    /\ last' = NoCall
    /\ UNCHANGED <<disk, clock, index, history, held, handle>>

\* cache.remove(id).
ArcRemove(id) ==
    /\ cache[id] # None
    /\ cache' = remove(cache, id)
    /\ last' = NoCall
    /\ UNCHANGED <<disk, clock, index, history, held, arcs, handle>>

\* cache.refresh(): a new map with a new Arc for every card.
ArcRefresh ==
    /\ Snapshots(Arc_cache_all(new_empty, arcs, disk, 1))
    /\ last' = NoCall
    /\ UNCHANGED <<disk, clock, index, history, held, handle>>

\* The holder of a handle and the operations of the cache, over card files
\* that are edited.
NextSnapshots ==
    \/ \E p \in Paths, dep \in Ids : EditFile(p, dep)
    \/ \E id \in Ids : GetRef(id)
    \/ \E p \in Paths : ArcInsert(p)
    \/ \E id \in Ids : ArcRemove(id)
    \/ ArcRefresh

SpecSnapshots == InitSnapshots /\ [][NextSnapshots]_vars

----------------------------------------------------------------------------
(* CardCache::all_ids *)

\* Modification times per second: a time counts TicksPerSec to the second.
TicksPerSec == 2

\* get_last_modified: the modification time of the file in whole seconds.
get_last_modified(d, p) == (d[p].mtime \div TicksPerSec) * TicksPerSec

\* The sort key of all_ids for a cached card: its last_modified, or the
\* file's time from get_last_modified when the card is outdated.
all_ids_key(d, card) ==
    LET o == is_outdated(d, card) IN
    IF o.panic THEN [panic |-> TRUE, key |-> 0]
    ELSE [panic |-> FALSE,
          key   |-> IF o.ret THEN get_last_modified(d, card.path)
                    ELSE card.last_modified]

\* Vec::sort_by_key of the first n pairs: a stable sort by ascending key.
RECURSIVE pairs_sort_by_key(_, _)
pairs_sort_by_key(pairs, n) ==
    IF n = 0 THEN <<>>
    ELSE LET sorted == pairs_sort_by_key(pairs, n - 1)
             k == Cardinality({i \in 1..Len(sorted) :
                                  sorted[i].key <= pairs[n].key})
         IN  SubSeq(sorted, 1, k) \o <<pairs[n]>> \o
             SubSeq(sorted, k + 1, Len(sorted))

\* Vec::reverse.
reverse(s) == [i \in 1..Len(s) |-> s[Len(s) + 1 - i]]

\* The orders self.0.iter() can yield the ids of the cache in.
iter_orders(c) ==
    LET keys == {id \in Ids : c[id] # None} IN
    {s \in [1..Cardinality(keys) -> keys] :
        \A i, j \in 1..Cardinality(keys) : s[i] = s[j] => i = j}

\* CardCache::all_ids when the map is iterated in the given order; a panic
\* when is_outdated panics for a cached card.
all_ids(c, d, order) ==
    IF \E i \in 1..Len(order) : all_ids_key(d, c[order[i]]).panic
    THEN [panic |-> TRUE, ret |-> <<>>]
    ELSE LET pairs == [i \in 1..Len(order) |->
                          [id  |-> order[i],
                           key |-> all_ids_key(d, c[order[i]]).key]]
             sorted == reverse(pairs_sort_by_key(pairs, Len(pairs)))
         IN  [panic |-> FALSE,
              ret   |-> [i \in 1..Len(sorted) |-> sorted[i].id]]

\* cache.all_ids().
AllIds(order) ==
    LET r == all_ids(cache, disk, order) IN
    /\ last' = [op |-> "all_ids", panic |-> r.panic, ret |-> r.ret]
    /\ UNCHANGED <<disk, clock, cache, index, history, held, arcs, handle>>

\* all_ids and try_get_ref over card files that are edited and removed.
NextAllIds ==
    \/ \E p \in Paths, dep \in Ids : EditFile(p, dep)
    \/ \E id \in Ids : RemoveFile(id)
    \/ \E id \in Ids : TryGetRef(id)
    \/ \E order \in iter_orders(cache) : AllIds(order)

SpecAllIds == Init /\ [][NextAllIds]_vars

\* The modification time of the cached card of id: its last_modified when
\* the file is not newer, the modification time of the file when it is.
ModTime(c, d, id) ==
    IF d[c[id].path].mtime > c[id].last_modified
    THEN d[c[id].path].mtime
    ELSE c[id].last_modified

\* C25: all_ids returns every id of the cache once, no id before one that
\* was modified later, in every state of the cache.
C25_AllIdsByRecency ==
    last.op = "all_ids" =>
        /\ ~last.panic
        /\ {last.ret[i] : i \in 1..Len(last.ret)}
               = {id \in Ids : cache[id] # None}
        /\ Len(last.ret) = Cardinality({id \in Ids : cache[id] # None})
        /\ \A i, j \in 1..Len(last.ret) :
               i < j => ModTime(cache, disk, last.ret[i])
                            >= ModTime(cache, disk, last.ret[j])

----------------------------------------------------------------------------
(* The full scan: the cards are read in some order, in parts *)

\* The orders a scan can yield the card files of the collection in.
scan_orders(d) ==
    LET paths == get_containing_card_paths(d) IN
    {s \in [1..Cardinality(paths) -> paths] :
        \A i, j \in 1..Cardinality(paths) : s[i] = s[j] => i = j}

\* get_cards_from_categories: the cards of the files, in the order of the
\* scan.
get_cards_from_categories(d, order) ==
    [i \in 1..Len(order) |-> from_path(d, order[i])]

\* The for loop of cache_all: cache_one for every card, in order.
RECURSIVE cache_all_loop(_, _)
cache_all_loop(c, all_cards) ==
    IF all_cards = <<>> THEN c
    ELSE cache_all_loop(insert(c, Head(all_cards)), Tail(all_cards))

\* The dependents a part of the scan collects: every card of the part is
\* added to the dependents of each of its dependency ids.
RECURSIVE dependents_loop(_, _)
dependents_loop(m, cards) ==
    IF cards = <<>> THEN m
    ELSE LET card == Head(cards) IN
         dependents_loop(
             [id \in Ids |-> IF id \in dependency_ids(card)
                             THEN m[id] \cup {card.id} ELSE m[id]],
             Tail(cards))

\* A merge of two parts that keeps the dependents of one part only.
merge_dependents_KeepsOne(m1, m2) ==
    [id \in Ids |-> IF m2[id] # {} THEN m2[id] ELSE m1[id]]

\* The merge of the dependents of two parts: the union per id.
merge_dependents(m1, m2) == [id \in Ids |-> m1[id] \cup m2[id]]

\* sync over a scan in the given order whose first split cards are one part
\* and whose other cards are another: one entry per card, with the merged
\* dependents of its id.
sync_scan(d, order, split) ==
    LET cards == get_cards_from_categories(d, order)
        empty == [id \in Ids |-> {}]
        m1 == dependents_loop(empty, SubSeq(cards, 1, split))
        m2 == dependents_loop(empty, SubSeq(cards, split + 1, Len(cards)))
        m  == merge_dependents(m1, m2)
    IN  [id \in Ids |->
            IF \E i \in 1..Len(cards) : cards[i].id = id
            THEN [path       |-> cards[CHOOSE i \in 1..Len(cards) :
                                           cards[i].id = id].path,
                  dependents |-> m[id]]
            ELSE None]

\* cache.refresh() when the scan yields the cards in the given order.
ScanCache(order) ==
    /\ cache' = cache_all_loop(new_empty,
                               get_cards_from_categories(disk, order))
    /\ last' = [op |-> "cache_all", order |-> order]
    /\ UNCHANGED <<disk, clock, index, history, held, arcs, handle>>

\* sync() when the scan yields the cards in the given order and in two
\* parts.
ScanIndex(order, split) ==
    /\ index' = sync_scan(disk, order, split)
    /\ last' = [op |-> "sync_scan", order |-> order, split |-> split]
    /\ UNCHANGED <<disk, clock, cache, history, held, arcs, handle>>

\* Full scans of a collection whose card files are edited, removed and moved.
NextScan ==
    \/ \E p \in Paths, dep \in Ids : EditFile(p, dep)
    \/ \E id \in Ids : RemoveFile(id)
    \/ \E p \in Paths : MoveFile(p)
    \/ \E order \in scan_orders(disk) : ScanCache(order)
    \/ \E order \in scan_orders(disk) :
           \E split \in 0..Len(order) : ScanIndex(order, split)

SpecScan == Init /\ [][NextScan]_vars

----------------------------------------------------------------------------
(* Properties of the edges the card API creates *)

\* The file of the card a declares or implies a dependency on b.
HasDependency(d, a, b) ==
    \E p \in Paths : d[p] # None /\ d[p].id = a /\ b \in dependency_ids(d[p])

\* The card id has a file.
HasFile(d, id) == \E p \in Paths : d[p] # None /\ d[p].id = id

\* C27: whenever a step of the card API gives the card a a dependency on
\* another card b that has a file, the index lists a among the dependents of
\* b right after the step.
C27_NewEdgeHasReverse ==
    [][\A a, b \in Ids :
          (/\ a # b
           /\ HasFile(disk', b)
           /\ ~HasDependency(disk, a, b)
           /\ HasDependency(disk', a, b))
          => (index'[b] # None /\ a \in index'[b].dependents)]_vars

\* C28: is_resolved on a card returns true or false, whatever the
\* dependencies of the cards are.
C28_IsResolvedTerminates ==
    last.op = "is_resolved" => (~last.aborted /\ last.ret \in BOOLEAN)

\* C29: every slot of the cache holds a card whose id is the key of the
\* slot.
C29_KeyIsCardId ==
    \A id \in Ids : cache[id] # None => cache[id].id = id

----------------------------------------------------------------------------
(* TimeStamp and its text, as sequences of characters *)

Digits == <<"0", "1", "2", "3", "4", "5", "6", "7", "8", "9">>

\* u32::to_string.
RECURSIVE to_string(_)
to_string(n) ==
    IF n < 10 THEN <<Digits[n + 1]>>
    ELSE Append(to_string(n \div 10), Digits[(n % 10) + 1])

\* format!("{:02}", n).
format_02(n) == IF n < 10 THEN <<"0">> \o to_string(n) ELSE to_string(n)

\* c.to_string().parse::<u32>().ok() of one character.
char_parse(c) ==
    IF \E i \in 1..10 : Digits[i] = c
    THEN Some((CHOOSE i \in 1..10 : Digits[i] = c) - 1)
    ELSE None

\* TimeStamp::parse_two_digits on the characters left.
parse_two_digits(s) ==
    IF Len(s) < 2 THEN None
    ELSE LET d1 == char_parse(s[1])
             d2 == char_parse(s[2])
         IN  IF d1 = None \/ d2 = None THEN None
             ELSE Some(d1.val * 10 + d2.val)

\* TimeStamp::default().
TimeStamp_default ==
    [millenium |-> 0, century |-> None, decade |-> None, year |-> None,
     month |-> None, day |-> None, hour |-> None, minute |-> None,
     after_christ |-> FALSE]

\* The text of an optional digit of serialize.
star(o) == IF o = None THEN <<"*">> ELSE to_string(o.val)

\* TimeStamp::serialize.
TimeStamp_serialize(t) ==
    LET s0 == (IF t.after_christ THEN <<>> ELSE <<"-">>)
              \o to_string(t.millenium) \o star(t.century)
              \o star(t.decade) \o star(t.year)
    IN  IF t.month = None THEN s0
        ELSE LET s1 == s0 \o <<"-">> \o format_02(t.month.val) IN
        IF t.day = None THEN s1
        ELSE LET s2 == s1 \o <<"-">> \o format_02(t.day.val) IN
        IF t.hour = None THEN s2
        ELSE LET s3 == s2 \o <<" ">> \o format_02(t.hour.val) IN
        IF t.minute = None THEN s3
        ELSE s3 \o <<":">> \o format_02(t.minute.val)

\* The part of from_string after the year: month, day, hour and minute
\* (stage 1 to 4), each after its separator.
RECURSIVE from_string_rest(_, _, _)
from_string_rest(selv, s, stage) ==
    IF s = <<>> THEN Some(selv)
    ELSE IF Head(s) \notin (IF stage = 4 THEN {":"} ELSE {"-", " "})
    THEN None
    ELSE LET two == parse_two_digits(Tail(s)) IN
         IF two = None THEN None
         ELSE LET selv2 ==
                      IF stage = 1 THEN [selv EXCEPT !.month = two]
                      ELSE IF stage = 2 THEN [selv EXCEPT !.day = two]
                      ELSE IF stage = 3 THEN [selv EXCEPT !.hour = two]
                      ELSE [selv EXCEPT !.minute = two]
              IN  IF stage = 4 THEN Some(selv2)
                  ELSE from_string_rest(selv2, SubSeq(s, 4, Len(s)),
                                        stage + 1)

\* An optional digit of from_string: a star, a digit, or a failure.
digit_or_star(c) == IF c = "*" THEN Some(None) ELSE
                    IF char_parse(c) = None THEN None
                    ELSE Some(char_parse(c))

\* TimeStamp::from_string.
TimeStamp_from_string(s0) ==
    IF s0 = <<>> THEN None
    ELSE LET s == IF s0[1] \notin {"+", "-"} THEN <<"+">> \o s0 ELSE s0 IN
         IF Len(s) < 5 THEN None
         ELSE LET millenium == char_parse(s[2])
                  century   == digit_or_star(s[3])
                  decade    == digit_or_star(s[4])
                  year      == digit_or_star(s[5])
              IN  IF millenium = None \/ century = None \/ decade = None
                     \/ year = None
                  THEN None
                  ELSE from_string_rest(
                           [TimeStamp_default EXCEPT
                              !.after_christ = (s[1] = "+"),
                              !.millenium = millenium.val,
                              !.century = century.val,
                              !.decade = decade.val,
                              !.year = year.val],
                           SubSeq(s, 6, Len(s)), 1)

----------------------------------------------------------------------------
(* The kinds of cards and their stored form *)

\* RawType::default().
RawType_default ==
    [front |-> None, back |-> None, name |-> None, class |-> None,
     instance |-> None, attribute |-> None, statement |-> None,
     is_event |-> FALSE, event |-> None, start_time |-> None,
     end_time |-> None]

StatementCard(front) == [kind |-> "Statement", front |-> front]
EventCard(front, start_time, end_time) ==
    [kind |-> "Event", front |-> front, start_time |-> start_time,
     end_time |-> end_time]
AttributeCard(attribute, back, instance) ==
    [kind |-> "Attribute", attribute |-> attribute, back |-> back,
     instance |-> instance]
NormalCard(front, back) == [kind |-> "Normal", front |-> front, back |-> back]
InstanceCard(name, class) == [kind |-> "Instance", name |-> name, class |-> class]
UnfinishedCard(front) == [kind |-> "Unfinished", front |-> front]
ClassCard(name, back, parent_class, is_event) ==
    [kind |-> "Class", name |-> name, back |-> back,
     parent_class |-> parent_class, is_event |-> is_event]

\* opt.map(TimeStamp::from_string).flatten().
map_from_string(opt) ==
    IF opt = None THEN None ELSE TimeStamp_from_string(opt.val)

\* The event branch of into_any: both times are read from start_time.
into_any_event(raw) ==
    LET start == map_from_string(raw.start_time) IN
    EventCard(raw.event.val,
              IF start = None THEN TimeStamp_default ELSE start.val,
              map_from_string(raw.start_time))

\* RawType::into_any; attrs are the attributes AttributeId::verify finds.
into_any(raw, attrs) ==
    IF raw.statement # None THEN StatementCard(raw.statement.val)
    ELSE IF raw.event # None THEN into_any_event(raw)
    ELSE IF /\ raw.front = None /\ raw.back # None /\ raw.name = None
            /\ raw.class = None /\ raw.attribute # None
            /\ raw.instance # None
    THEN IF raw.attribute.val \in attrs
         THEN AttributeCard(raw.attribute.val, raw.back.val,
                            raw.instance.val)
         ELSE Panic
    ELSE IF /\ raw.front # None /\ raw.back # None /\ raw.name = None
            /\ raw.class = None /\ raw.attribute = None
            /\ raw.instance = None
    THEN NormalCard(raw.front.val, raw.back.val)
    ELSE IF /\ raw.front = None /\ raw.back = None /\ raw.name # None
            /\ raw.class # None /\ raw.attribute = None
            /\ raw.instance = None
    THEN InstanceCard(raw.name.val, raw.class.val)
    ELSE IF /\ raw.front # None /\ raw.back = None /\ raw.name = None
            /\ raw.class = None /\ raw.attribute = None
            /\ raw.instance = None
    THEN UnfinishedCard(raw.front.val)
    ELSE IF /\ raw.front = None /\ raw.back # None /\ raw.name # None
            /\ raw.attribute = None /\ raw.instance = None
    THEN ClassCard(raw.name.val, raw.back.val, raw.class, raw.is_event)
    ELSE Panic

\* RawType::from_any.
from_any(ty) ==
    IF ty.kind = "Instance"
    THEN [RawType_default EXCEPT !.class = Some(ty.class),
                                 !.name = Some(ty.name)]
    ELSE IF ty.kind = "Normal"
    THEN [RawType_default EXCEPT !.front = Some(ty.front),
                                 !.back = Some(ty.back)]
    ELSE IF ty.kind = "Unfinished"
    THEN [RawType_default EXCEPT !.front = Some(ty.front)]
    ELSE IF ty.kind = "Attribute"
    THEN [RawType_default EXCEPT !.attribute = Some(ty.attribute),
                                 !.back = Some(ty.back),
                                 !.instance = Some(ty.instance)]
    ELSE IF ty.kind = "Class"
    THEN [RawType_default EXCEPT !.name = Some(ty.name),
                                 !.back = Some(ty.back),
                                 !.class = ty.parent_class,
                                 !.is_event = ty.is_event]
    ELSE IF ty.kind = "Statement"
    THEN [RawType_default EXCEPT !.statement = Some(ty.front)]
    ELSE [RawType_default EXCEPT
             !.event = Some(ty.front),
             !.start_time = Some(TimeStamp_serialize(ty.start_time)),
             !.end_time = IF ty.end_time = None THEN None
                          ELSE Some(TimeStamp_serialize(ty.end_time.val))]

\* Largest millenium of the time stamps of the cards.
MaxMillenium == 1
\* Number of attribute ids.
NumAttributes == 2
AttributeIds == 1..NumAttributes
\* The texts of a front side or a name.
Fronts == {"a", "b"}
\* The back sides: a text or a reference to a card.
Backs == {Text} \cup Ids

\* Time stamps of a century or of a month of it, before and after Christ.
TimeStamps ==
    {[TimeStamp_default EXCEPT !.millenium = m, !.century = Some(9),
                               !.month = mo, !.after_christ = ac] :
        m \in 0..MaxMillenium, mo \in {None, Some(12)}, ac \in BOOLEAN}

\* The cards of every kind.
AnyTypes ==
    {NormalCard(f, b) : f \in Fronts, b \in Backs}
    \cup {UnfinishedCard(f) : f \in Fronts}
    \cup {InstanceCard(n, c) : n \in Fronts, c \in Ids}
    \cup {AttributeCard(a, b, i) : a \in AttributeIds, b \in Backs, i \in Ids}
    \cup UNION {{ClassCard(n, b, p, e) : n \in Fronts, b \in Backs} :
                   p \in {None} \cup {Some(c) : c \in Ids}, e \in BOOLEAN}
    \cup {StatementCard(f) : f \in Fronts}
    \cup UNION {{EventCard(f, s, e) : f \in Fronts} :
                   s \in TimeStamps,
                   e \in {None} \cup {Some(t) : t \in TimeStamps}}

\* RawCard::from_card on a card of type ty, and into_any on the stored form
\* when the card is loaded again; attrs are the attributes that are stored.
FromCard(ty, attrs) ==
    /\ last' = [op |-> "from_card", ty |-> ty, attrs |-> attrs,
                raw |-> from_any(ty), ret |-> into_any(from_any(ty), attrs)]
    /\ UNCHANGED <<disk, clock, cache, index, history, held, arcs, handle>>

NextTypes == \E ty \in AnyTypes, attrs \in SUBSET AttributeIds :
                 FromCard(ty, attrs)

SpecTypes == Init /\ [][NextTypes]_vars

\* C30: a card stored and loaded again is a card of the same kind with the
\* same values in its fields, for every kind of card whose attribute, if it
\* has one, is stored.
C30_TypeRoundTrip ==
    (/\ last.op = "from_card"
     /\ last.ty.kind = "Attribute" => last.ty.attribute \in last.attrs)
    => last.ret = last.ty

====
